---- MODULE Spec2Model ----
(***************************************************************************)
(* A model of scripts/generate_test_plan_html.py: the Markdown test-plan   *)
(* scanner parse_markdown, the results loader load_test_results and the    *)
(* result merge performed by generate_html.                                *)
(*                                                                         *)
(* A document is a sequence of lines.  Every line is one concrete string   *)
(* of a small alphabet; the string functions the code applies to a line    *)
(* (startswith, re.match, strip, replace, re.search) are modelled by what  *)
(* they return on these strings.  Python objects that stay reachable       *)
(* through a second reference after they were stored (the current test,    *)
(* the current prerequisite) live in a heap and are referred to by index.  *)
(***************************************************************************)
EXTENDS Integers, Sequences, FiniteSets, TLC

(* ---------------------------------------------------------------- bounds *)
\* Documents of up to MaxLen lines over Lines are scanned exhaustively.
MaxLen == 4

\* Plans of up to MaxPlanLen lines over PlanLines are merged with results
\* files of up to MaxRecords records.
MaxPlanLen == 3
MaxRecords == 2
\* The largest number of calls of generate_html on the same arguments.
MaxCalls == 2

(* ------------------------------------------------------ the line alphabet *)
\* PRE and PRE2 stand for two of the three literal prerequisite headings of
\* the source, GOAL for its goal marker line and OUTM for its check-output
\* marker line; in FOPEN and FCLOSE the character ~ stands for the backquote.
PRE    == "### 1. env"
PRE2   == "### 2. kb"
PH1    == "### Phase 1: X"
PH2    == "### Phase 2: Y"
T11    == "#### Test 1.1: name"
T12    == "#### Test 1.2: other"
FOPEN  == "~~~bash"
FCLOSE == "~~~"
CHK    == "- [ ] ok"
CHK2   == "  - [ ] check"
GOAL   == "**Goal**: goal text"
OUTM   == "**Check output**:"
CMD    == "  echo hi  "
CMD1   == "cmd1"
CMD2   == "cmd2"
BLANK  == ""

Lines == {PRE, PH1, T11, T12, FOPEN, FCLOSE, CHK, GOAL, CMD, BLANK}

\* Longer documents: scenarios A and B of the specification and three plans
\* with several phases, prerequisites and the check-output marker.
ScenarioA == <<PRE, FOPEN, "echo hi", FCLOSE, CHK, BLANK>>
ScenarioB == <<PH1, GOAL, T11, FOPEN, CMD1, FCLOSE, CHK2, FOPEN, CMD2, FCLOSE, BLANK>>
PlanTwoPhases == <<PH1, T11, CHK, OUTM, PH2, GOAL, T12, FOPEN, CMD, FCLOSE>>
PlanPrereqs == <<PRE, CHK, FOPEN, BLANK, CMD, FCLOSE, PRE2, PH1, T11, T12, CHK2>>
PlanTwoTests == <<PH1, T11, CHK, T12, CHK2, CHK>>
PlanFenceAfterPhase == <<PH1, T11, PH2, FOPEN, CMD, FCLOSE, T12>>
PlanSameIdInTwoPhases == <<PH1, T11, CHK, PH2, T11, CHK>>
PlanSeveralFences == <<PH1, T11, FOPEN, CMD1, FCLOSE, FOPEN, CMD2, FCLOSE, FOPEN, CMD>>

Scenarios == {ScenarioA, ScenarioB, PlanTwoPhases, PlanPrereqs, PlanTwoTests,
              PlanFenceAfterPhase, PlanSameIdInTwoPhases, PlanSeveralFences}

PlanLines == {PH1, T11, T12, CHK}

(* ------------------------------------------------------ the results files *)
\* Test records of a results file.  A record has only the keys that are
\* written in it; durations are in tenths of a second (125 is 12.5 s).
Records ==
    { [id |-> "test_1.1", result |-> "failed", duration |-> 125,
       checkpoints |-> <<[text |-> "ok ", result |-> "failed"]>>],
      [id |-> "test_1.1", result |-> "passed", duration |-> 30, log_file |-> "logs/1.1.log",
       checkpoints |-> <<[text |-> "ok", result |-> "passed"]>>],
      [id |-> "1.2", result |-> "skipped"],
      [id |-> "test_1.2", result |-> "running", duration |-> 700, log_file |-> "logs/1.2.log",
       checkpoints |-> <<[text |-> "check", result |-> "failed"], [text |-> "ok"]>>],
      [id |-> "run_2.0_test_1.1", result |-> "passed", duration |-> 10],
      [id |-> "smoke", result |-> "passed", duration |-> 20],
      [id |-> "test_1.1"],
      [result |-> "passed", duration |-> 40] }

(* -------------------------------------------------- string functions used *)
\* line.startswith(p) for one of the three prerequisite heading prefixes
IsPrereqHeading(line) == line \in {PRE, PRE2}

\* re.match(r'^### Phase \d+:', line)
IsPhaseHeading(line) == line \in {PH1, PH2}

\* re.match(r'^#### Test \d+\.\d+:', line)
IsTestHeading(line) == line \in {T11, T12}

\* lines[i].startswith(goal marker)
IsGoalLine(line) == line \in {GOAL}

\* str.strip()
Strip(line) ==
    CASE line = CMD -> "echo hi"
      [] line = "  echo hi" -> "echo hi"
      [] line = "echo hi  " -> "echo hi"
      [] line = CHK2 -> "- [ ] check"
      [] OTHER -> line

\* str.lstrip() and str.rstrip(): the two halves of strip() on a text of
\* several lines
LStrip(line) ==
    CASE line = CMD -> "echo hi  "
      [] line = "  echo hi" -> "echo hi"
      [] line = CHK2 -> "- [ ] check"
      [] OTHER -> line

RStrip(line) ==
    CASE line = CMD -> "  echo hi"
      [] line = "echo hi  " -> "echo hi"
      [] OTHER -> line

\* line.strip() == fence-open token
IsFenceOpen(line) == Strip(line) = FOPEN

\* Variant: an empty line closes a fence as well.
IsFenceClose_OrBlank(line) == Strip(line) \in {FCLOSE, BLANK}

\* line.strip() == fence-close token
IsFenceClose(line) == Strip(line) = FCLOSE

\* line.strip().startswith('- [ ]')
IsCheckbox(line) == Strip(line) \in {CHK, "- [ ] check"}

\* line.strip() == check-output marker
IsOutputMarker(line) == Strip(line) = OUTM

\* line.replace('### ', '')
HeadingTitle(line) ==
    CASE line = PRE -> "1. env"
      [] line = PRE2 -> "2. kb"
      [] line = PH1 -> "Phase 1: X"
      [] line = PH2 -> "Phase 2: Y"
      [] OTHER -> line

\* line.replace('#### ', '')
TestTitle(line) ==
    CASE line = T11 -> "Test 1.1: name"
      [] line = T12 -> "Test 1.2: other"
      [] OTHER -> line

\* re.search(r'Test (\d+\.\d+)', line): group(1) if it matches, else '0.0'
TestIdOf(line) ==
    CASE line = T11 -> "1.1"
      [] line = T12 -> "1.2"
      [] OTHER -> "0.0"

\* line.replace('- [ ]', '').strip()
CheckpointText(line) ==
    CASE line = CHK -> "ok"
      [] line = CHK2 -> "check"
      [] OTHER -> Strip(line)

\* lines[i].replace(goal marker, '').strip()
GoalText(line) ==
    CASE line = GOAL -> "goal text"
      [] OTHER -> Strip(line)

\* A text is kept as the sequence of its lines ('\n'.join(ls)); the empty
\* text is << >>.  JoinStrip(ls) is '\n'.join(ls).strip(): whitespace-only
\* lines at both ends disappear together with the line breaks next to them,
\* the first remaining line loses its leading and the last its trailing
\* white space.
RECURSIVE DropLeadingBlank(_)
DropLeadingBlank(ls) ==
    IF ls = << >> THEN << >>
    ELSE IF Strip(Head(ls)) = "" THEN DropLeadingBlank(Tail(ls))
    ELSE ls

RECURSIVE DropTrailingBlank(_)
DropTrailingBlank(ls) ==
    IF ls = << >> THEN << >>
    ELSE IF Strip(ls[Len(ls)]) = "" THEN DropTrailingBlank(SubSeq(ls, 1, Len(ls) - 1))
    ELSE ls

JoinStrip(ls) ==
    LET core == DropTrailingBlank(DropLeadingBlank(ls))
        n    == Len(core)
    IN  [k \in 1..n |->
            IF k = 1 /\ k = n THEN Strip(core[k])
            ELSE IF k = 1 THEN LStrip(core[k])
            ELSE IF k = n THEN RStrip(core[k])
            ELSE core[k]]

(* ------------------------------------------------------------------ state *)
VARIABLES
    lines,                \* content.split('\n')
    i,                    \* the cursor, as a count of lines already consumed
    prerequisites,        \* list of prerequisite records
    current_prerequisite, \* 0 (None) or the index of the open one in prerequisites
    phases,               \* list of closed phase records
    current_phase,        \* << >> (None) or <<p>>, p the open phase record
    tests,                \* heap of test records, in order of creation
    current_test,         \* 0 (None) or the heap index of the current test
    collecting_command,
    command_lines,
    in_prerequisite,
    current_section,
    role,                 \* history: role[k] is how line k was consumed
    results_file,         \* the results file named on the command line
    test_results,         \* None or the mapping built by load_test_results
    stats,                \* the counts of the summary block
    annotations,          \* per phase and test, what generate_html renders
    input_file,           \* the Markdown input: "readable" or "missing"
    summary_file,         \* the summary file named on the command line
    summary,              \* None or the dict loaded from the summary file
    summary_shown,        \* whether generate_html rendered the summary block
    calls,                \* the number of calls of generate_html so far
    output,               \* the output file: "none" or "written"
    pc,
    results,              \* generate_html_report: the 'tests' array of the results
    grouped,              \* the number of tests the grouping loop has consumed
    tests_by_phase,       \* the dict of the grouping loop, in insertion order
    sorted_phases,        \* the keys of tests_by_phase as sorted() returns them
    sections,             \* the phase sections appended to html so far
    report_pc             \* the position of generate_html_report

vars == <<lines, i, prerequisites, current_prerequisite, phases, current_phase,
          tests, current_test, collecting_command, command_lines,
          in_prerequisite, current_section, role, results_file, test_results,
          stats, annotations, input_file, summary_file, summary, summary_shown,
          calls, output, pc, results, grouped, tests_by_phase, sorted_phases,
          sections, report_pc>>

parseVars == <<lines, i, prerequisites, current_prerequisite, phases, current_phase,
               tests, current_test, collecting_command, command_lines,
               in_prerequisite, current_section, role>>

mergeVars == <<results_file, test_results, stats, annotations, input_file,
               summary_file, summary, summary_shown, calls, output>>

reportVars == <<results, grouped, tests_by_phase, sorted_phases, sections, report_pc>>

RECURSIVE SeqsUpTo(_, _)
SeqsUpTo(S, n) ==
    IF n = 0 THEN {<< >>}
    ELSE LET shorter == SeqsUpTo(S, n - 1)
         IN  shorter \cup {Append(s, x) : s \in {t \in shorter : Len(t) = n - 1}, x \in S}

Docs == SeqsUpTo(Lines, MaxLen) \cup Scenarios

Plans == SeqsUpTo(PlanLines, MaxPlanLen) \cup Scenarios

\* dict.get(key, default)
Get(d, key, default) == IF key \in DOMAIN d THEN d[key] ELSE default

\* The empty dict.
EmptyDict == [x \in {} |-> x]

\* d[key] = value
Put(d, key, value) == [x \in DOMAIN d \cup {key} |-> IF x = key THEN value ELSE d[x]]

\* A results file is not named, named but missing, unparseable, or a JSON
\* document whose 'tests' array is the given sequence of records.
ResultsFiles ==
    {[kind |-> k, tests |-> << >>] : k \in {"absent", "missing", "malformed"}}
        \cup {[kind |-> "json", tests |-> rs] : rs \in SeqsUpTo(Records, MaxRecords)}

\* The two empty values of test_results: None and the empty dict.
NoResults == [is_none |-> TRUE, map |-> EmptyDict]
EmptyResults == [is_none |-> FALSE, map |-> EmptyDict]

\* The contents of a summary file that parses: an empty object and one that
\* holds a pass rate.
SummaryValues == {EmptyDict, [statistics |-> [pass_rate |-> 50]]}

\* A summary file is not named, named but missing, unparseable, or a JSON
\* document of the given value.
SummaryFiles ==
    {[kind |-> k, value |-> EmptyDict] : k \in {"absent", "missing", "malformed"}}
        \cup {[kind |-> "json", value |-> v] : v \in SummaryValues}

\* summary = None
NoSummary == [is_none |-> TRUE, map |-> EmptyDict]

\* generate_html_report has not been called.
ReportIdle ==
    /\ results = << >>
    /\ grouped = 0
    /\ tests_by_phase = << >>
    /\ sorted_phases = << >>
    /\ sections = << >>
    /\ report_pc = "idle"

\* The line under the cursor (lines[i] of the code, whose cursor is zero-based).
Cur == lines[i + 1]

Init ==
    /\ lines \in Docs
    /\ i = 0
    /\ prerequisites = << >>
    /\ current_prerequisite = 0
    /\ phases = << >>
    /\ current_phase = << >>
    /\ tests = << >>
    /\ current_test = 0
    /\ collecting_command = FALSE
    /\ command_lines = << >>
    /\ in_prerequisite = FALSE
    /\ current_section = "None"
    /\ role = << >>
    /\ results_file = [kind |-> "absent", tests |-> << >>]
    /\ test_results = NoResults
    /\ stats = [total |-> 0, passed |-> 0, failed |-> 0, running |-> 0, skipped |-> 0]
    /\ annotations = << >>
    /\ input_file = "readable"
    /\ summary_file = [kind |-> "absent", value |-> EmptyDict]
    /\ summary = NoSummary
    /\ summary_shown = FALSE
    /\ calls = 0
    /\ output = "none"
    /\ pc = "scan"
    /\ ReportIdle

\* The same, for a plan that is merged with a results file.
InitMerge ==
    /\ lines \in Plans
    /\ i = 0
    /\ prerequisites = << >>
    /\ current_prerequisite = 0
    /\ phases = << >>
    /\ current_phase = << >>
    /\ tests = << >>
    /\ current_test = 0
    /\ collecting_command = FALSE
    /\ command_lines = << >>
    /\ in_prerequisite = FALSE
    /\ current_section = "None"
    /\ role = << >>
    /\ results_file = [kind |-> "absent", tests |-> << >>]
    /\ test_results = NoResults
    /\ stats = [total |-> 0, passed |-> 0, failed |-> 0, running |-> 0, skipped |-> 0]
    /\ annotations = << >>
    /\ input_file = "readable"
    /\ summary_file = [kind |-> "absent", value |-> EmptyDict]
    /\ summary = NoSummary
    /\ summary_shown = FALSE
    /\ calls = 0
    /\ output = "none"
    /\ pc = "scan"
    /\ ReportIdle

InLoop == pc = "scan" /\ i < Len(lines)

(* ------------------------------------------------------------------- main *)
\* Variant: a missing input file reads as an empty document.
OpenInput_Empty(file) == [raised |-> FALSE]

\* main: open(args.input) raises for a missing file, outside any try block.
OpenInput(file) == [raised |-> file = "missing"]

\* main: the Markdown file is read; the exception of a missing file ends the
\* program.
ReadInput ==
    /\ pc = "start"
    /\ pc' = IF OpenInput(input_file).raised THEN "aborted" ELSE "scan"
    /\ UNCHANGED <<parseVars, mergeVars, reportVars>>

\* main: the rendered page is written to the output file.
WriteOutput ==
    /\ pc = "rendered"
    /\ output' = "written"
    /\ pc' = "done"
    /\ UNCHANGED <<parseVars, results_file, test_results, stats, annotations,
                   input_file, summary_file, summary, summary_shown, calls,
                   reportVars>>

(* ---------------------------------------------------------- parse_markdown *)
\* Variant: the open phase is forgotten at a prerequisite heading.
StorePhase_Forget(ps, cp) == ps

\* if current_phase: phases.append(current_phase)       (prerequisite heading)
StorePhase(ps, cp) ==
    IF cp # << >> THEN Append(ps, cp[1]) ELSE ps

\* if current_test: current_phase['tests'].append(current_test)
WithCurrentTest(cp, ct) ==
    IF ct # 0 THEN [cp EXCEPT ![1].tests = Append(@, ct)] ELSE cp

\* if current_phase: (store the current test in it); phases.append(current_phase)
\* (Phase heading)
StorePhaseAndTest(ps, cp, ct) ==
    IF cp # << >> THEN Append(ps, WithCurrentTest(cp, ct)[1]) ELSE ps

\* Variant: after the loop the open phase is stored without the current test.
ForceClose_NoTest(ps, cp, ct) ==
    IF cp # << >> THEN Append(ps, cp[1]) ELSE ps

\* The same statements after the loop.
ForceClose(ps, cp, ct) ==
    IF cp # << >> THEN Append(ps, WithCurrentTest(cp, ct)[1]) ELSE ps

\* The container a command or a checkpoint goes to:
\* if in_prerequisite and current_prerequisite: ... elif current_test: ...
Owner(inpre, cpr, ct) ==
    IF inpre /\ cpr # 0 THEN "prerequisite"
    ELSE IF ct # 0 THEN "test"
    ELSE "none"

\* Variant: a Phase heading leaves the prerequisite context as it is.
PrerequisiteContextAfterPhase_Keep(inpre, cpr) ==
    [in_prerequisite |-> inpre, current_prerequisite |-> cpr]

\* in_prerequisite = False; current_prerequisite = None      (Phase heading)
PrerequisiteContextAfterPhase(inpre, cpr) ==
    [in_prerequisite |-> FALSE, current_prerequisite |-> 0]

\* Variant: a prerequisite heading leaves the phase open.
PhaseAfterPrereqHeading_Keep(cp) == cp

\* current_phase = None                                (prerequisite heading)
PhaseAfterPrereqHeading(cp) == << >>

\* A prerequisite heading: the open phase is stored, a new prerequisite is
\* created and stored at once.
PrereqHeading ==
    /\ InLoop
    /\ IsPrereqHeading(Cur)
    /\ phases' = StorePhase(phases, current_phase)
    /\ current_phase' = PhaseAfterPrereqHeading(current_phase)
    /\ in_prerequisite' = TRUE
    /\ prerequisites' = Append(prerequisites,
                               [title |-> HeadingTitle(Cur), command |-> << >>,
                                checkpoints |-> << >>])
    /\ current_prerequisite' = Len(prerequisites) + 1
    /\ i' = i + 1
    /\ role' = Append(role, "prereq")
    /\ UNCHANGED <<lines, tests, current_test, collecting_command, command_lines,
                   current_section, pc>>
    /\ UNCHANGED <<mergeVars, reportVars>>

\* Variant: the line after a Phase heading is never looked at.
HasGoalLine_Never(ls, n) == FALSE

\* Is the line after the Phase heading (the n-th consumed line being the last
\* one before the heading) a goal line? i < len(lines) and
\* lines[i].startswith(goal marker), after i += 1
HasGoalLine(ls, n) == n + 1 < Len(ls) /\ IsGoalLine(ls[n + 2])

\* A Phase heading: prerequisite context ends, the open phase (with the
\* current test) is stored, a new phase opens and a goal line that follows
\* the heading is consumed.
PhaseHeading ==
    /\ InLoop
    /\ ~IsPrereqHeading(Cur)
    /\ IsPhaseHeading(Cur)
    /\ LET ctx == PrerequisiteContextAfterPhase(in_prerequisite, current_prerequisite)
       IN  /\ in_prerequisite' = ctx.in_prerequisite
           /\ current_prerequisite' = ctx.current_prerequisite
    /\ phases' = StorePhaseAndTest(phases, current_phase, current_test)
    /\ LET goal == HasGoalLine(lines, i)
       IN  /\ current_phase' = <<[title |-> HeadingTitle(Cur),
                                 description |-> IF goal THEN GoalText(lines[i + 2]) ELSE "",
                                 tests |-> << >>]>>
           /\ i' = IF goal THEN i + 2 ELSE i + 1
           /\ role' = IF goal THEN role \o <<"phase", "goal">> ELSE Append(role, "phase")
    /\ UNCHANGED <<lines, prerequisites, tests, current_test, collecting_command,
                   command_lines, current_section, pc>>
    /\ UNCHANGED <<mergeVars, reportVars>>

\* Variant: the test is created whether or not a phase is open.
TestsWithNewTest_NoPhaseCheck(ts, cp, line) ==
    Append(ts, [id |-> TestIdOf(line), title |-> TestTitle(line),
                command |-> << >>, checkpoints |-> << >>])

\* The tests after a Test heading: if current_phase: a test is created from
\* the line.
TestsWithNewTest(ts, cp, line) ==
    IF cp # << >>
    THEN Append(ts, [id |-> TestIdOf(line), title |-> TestTitle(line),
                     command |-> << >>, checkpoints |-> << >>])
    ELSE ts

\* A Test heading: with a phase open the current test is stored in it and a
\* new test becomes current; without one the line is skipped.
TestHeading ==
    /\ InLoop
    /\ ~IsPrereqHeading(Cur) /\ ~IsPhaseHeading(Cur)
    /\ IsTestHeading(Cur)
    /\ tests' = TestsWithNewTest(tests, current_phase, Cur)
    /\ IF current_phase # << >>
       THEN /\ current_phase' = WithCurrentTest(current_phase, current_test)
            /\ current_test' = Len(tests) + 1
       ELSE UNCHANGED <<current_phase, current_test>>
    /\ i' = i + 1
    /\ role' = Append(role, "test")
    /\ UNCHANGED <<lines, prerequisites, current_prerequisite, phases,
                   collecting_command, command_lines, in_prerequisite,
                   current_section, pc>>
    /\ UNCHANGED <<mergeVars, reportVars>>

IsHeading(line) == IsPrereqHeading(line) \/ IsPhaseHeading(line) \/ IsTestHeading(line)

\* A fence-open line starts (or restarts) the collection of a command.
FenceOpen ==
    /\ InLoop
    /\ ~IsHeading(Cur)
    /\ IsFenceOpen(Cur)
    /\ collecting_command' = TRUE
    /\ command_lines' = << >>
    /\ i' = i + 1
    /\ role' = Append(role, "fence_open")
    /\ UNCHANGED <<lines, prerequisites, current_prerequisite, phases, current_phase,
                   tests, current_test, in_prerequisite, current_section, pc>>
    /\ UNCHANGED <<mergeVars, reportVars>>

\* While collecting: a fence-close line assigns the command to the owner, any
\* other line is accumulated.
Collecting ==
    /\ InLoop
    /\ ~IsHeading(Cur) /\ ~IsFenceOpen(Cur)
    /\ collecting_command
    /\ IF IsFenceClose(Cur)
       THEN /\ LET owner == Owner(in_prerequisite, current_prerequisite, current_test)
               IN  /\ prerequisites' =
                        IF owner = "prerequisite"
                        THEN [prerequisites EXCEPT
                                ![current_prerequisite].command = JoinStrip(command_lines)]
                        ELSE prerequisites
                   /\ tests' =
                        IF owner = "test"
                        THEN [tests EXCEPT ![current_test].command = JoinStrip(command_lines)]
                        ELSE tests
            /\ collecting_command' = FALSE
            /\ command_lines' = << >>
            /\ role' = Append(role, "fence_close")
       ELSE /\ command_lines' = Append(command_lines, Cur)
            /\ role' = Append(role, "content")
            /\ UNCHANGED <<prerequisites, tests, collecting_command>>
    /\ i' = i + 1
    /\ UNCHANGED <<lines, current_prerequisite, phases, current_phase, current_test,
                   in_prerequisite, current_section, pc>>
    /\ UNCHANGED <<mergeVars, reportVars>>

\* The inner loop of a checkpoint's own fenced block, started at line j
\* (one-based): the position of the first fence-close line from j on, or
\* Len(ls) + 1 when there is none.
RECURSIVE NestedEnd(_, _)
NestedEnd(ls, j) ==
    IF j <= Len(ls) /\ ~IsFenceClose(ls[j]) THEN NestedEnd(ls, j + 1) ELSE j

\* Variant: a block that no later line closes is not taken as the
\* checkpoint's block.
HasNestedFence_OnlyClosed(ls, n) ==
    /\ n + 1 < Len(ls)
    /\ IsFenceOpen(ls[n + 2])
    /\ \E k \in (n + 3)..Len(ls) : IsFenceClose(ls[k])

\* Does the line after the checkbox line (the n-th consumed line being the
\* last one before it) open a fenced block?
HasNestedFence(ls, n) == n + 1 < Len(ls) /\ IsFenceOpen(ls[n + 2])

\* Variant: the checkpoint's block is taken without strip().
CheckpointCommand_NoStrip(ls, n) ==
    IF HasNestedFence(ls, n)
    THEN SubSeq(ls, n + 3, NestedEnd(ls, n + 3) - 1)
    ELSE << >>

\* checkpoint_obj['command']
CheckpointCommand(ls, n) ==
    IF HasNestedFence(ls, n)
    THEN JoinStrip(SubSeq(ls, n + 3, NestedEnd(ls, n + 3) - 1))
    ELSE << >>

\* Variant: the cursor stays on the checkbox line.
CursorAfterCheckbox_Stay(ls, n) == n

\* Variant: the cursor moves to the line after the checkbox line only.
CursorAfterCheckbox_NoSkip(ls, n) == n + 1

\* The cursor after a checkbox line: i = j + 1 past the fence-close line of
\* the checkpoint's own block (past the end when there is none), else i += 1.
CursorAfterCheckbox(ls, n) ==
    IF HasNestedFence(ls, n) THEN NestedEnd(ls, n + 3) ELSE n + 1

\* A checkbox item: a checkpoint is built, a fenced block that starts on the
\* next line becomes its command, and it is attached to the owner.
Checkbox ==
    /\ InLoop
    /\ ~IsHeading(Cur) /\ ~IsFenceOpen(Cur) /\ ~collecting_command
    /\ IsCheckbox(Cur)
    /\ LET checkpoint_obj == [text |-> CheckpointText(Cur),
                              command |-> CheckpointCommand(lines, i)]
           next  == CursorAfterCheckbox(lines, i)
           last  == IF next > Len(lines) THEN Len(lines) ELSE next
           owner == Owner(in_prerequisite, current_prerequisite, current_test)
       IN  /\ i' = next
           /\ role' = role \o <<"checkbox">> \o [k \in 1..(last - i - 1) |-> "nested"]
           /\ prerequisites' =
                IF owner = "prerequisite"
                THEN [prerequisites EXCEPT
                        ![current_prerequisite].checkpoints = Append(@, checkpoint_obj)]
                ELSE prerequisites
           /\ tests' =
                IF owner = "test"
                THEN [tests EXCEPT ![current_test].checkpoints = Append(@, checkpoint_obj)]
                ELSE tests
    /\ UNCHANGED <<lines, current_prerequisite, phases, current_phase, current_test,
                   collecting_command, command_lines, in_prerequisite,
                   current_section, pc>>
    /\ UNCHANGED <<mergeVars, reportVars>>

\* The check-output marker only records the section name.
OutputMarker ==
    /\ InLoop
    /\ ~IsHeading(Cur) /\ ~IsFenceOpen(Cur) /\ ~collecting_command /\ ~IsCheckbox(Cur)
    /\ IsOutputMarker(Cur)
    /\ current_section' = "output_checks"
    /\ i' = i + 1
    /\ role' = Append(role, "output_marker")
    /\ UNCHANGED <<lines, prerequisites, current_prerequisite, phases, current_phase,
                   tests, current_test, collecting_command, command_lines,
                   in_prerequisite, pc>>
    /\ UNCHANGED <<mergeVars, reportVars>>

\* Any other line is skipped.
PlainLine ==
    /\ InLoop
    /\ ~IsHeading(Cur) /\ ~IsFenceOpen(Cur) /\ ~collecting_command /\ ~IsCheckbox(Cur)
    /\ ~IsOutputMarker(Cur)
    /\ i' = i + 1
    /\ role' = Append(role, "plain")
    /\ UNCHANGED <<lines, prerequisites, current_prerequisite, phases, current_phase,
                   tests, current_test, collecting_command, command_lines,
                   in_prerequisite, current_section, pc>>
    /\ UNCHANGED <<mergeVars, reportVars>>

\* After the loop: the open phase, with the current test, is stored and the
\* two lists are returned.
Finish ==
    /\ pc = "scan"
    /\ i >= Len(lines)
    /\ phases' = ForceClose(phases, current_phase, current_test)
    /\ pc' = "parsed"
    /\ UNCHANGED <<lines, i, prerequisites, current_prerequisite, current_phase,
                   tests, current_test, collecting_command, command_lines,
                   in_prerequisite, current_section, role>>
    /\ UNCHANGED <<mergeVars, reportVars>>

Next ==
    \/ PrereqHeading
    \/ PhaseHeading
    \/ TestHeading
    \/ FenceOpen
    \/ Collecting
    \/ Checkbox
    \/ OutputMarker
    \/ PlainLine
    \/ Finish

Spec == Init /\ [][Next]_vars

\* The returned phases with every test reference replaced by the test record.
ReturnedPhases ==
    [p \in 1..Len(phases) |->
        [phases[p] EXCEPT !.tests = [k \in 1..Len(phases[p].tests) |-> tests[phases[p].tests[k]]]]]

(* ------------------------------------------------------ load_test_results *)
\* re.search(r'(\d+\.\d+)', test_id): is there a match, and its group(1)
HasTestNum(test_id) == test_id \in {"test_1.1", "1.2", "test_1.2", "run_2.0_test_1.1"}

\* Variant: the last N.M-shaped substring of the id is taken.
TestNum_Last(test_id) ==
    CASE test_id = "test_1.1" -> "1.1"
      [] test_id = "1.2" -> "1.2"
      [] test_id = "test_1.2" -> "1.2"
      [] test_id = "run_2.0_test_1.1" -> "1.1"
      [] OTHER -> test_id

TestNum(test_id) ==
    CASE test_id = "test_1.1" -> "1.1"
      [] test_id = "1.2" -> "1.2"
      [] test_id = "test_1.2" -> "1.2"
      [] test_id = "run_2.0_test_1.1" -> "2.0"
      [] OTHER -> test_id

\* The entry stored for a test record.
ResultEntry(test) ==
    [result |-> Get(test, "result", "unknown"),
     duration |-> Get(test, "duration", 0),
     log_file |-> Get(test, "log_file", ""),
     checkpoints |-> Get(test, "checkpoints", << >>)]

\* Variant: a record is stored only if its key is not in the mapping yet.
RECURSIVE BuildResultsMap_FirstWins(_, _)
BuildResultsMap_FirstWins(recs, m) ==
    IF recs = << >> THEN m
    ELSE LET test    == Head(recs)
             test_id == Get(test, "id", "")
         IN  IF HasTestNum(test_id) /\ TestNum(test_id) \notin DOMAIN m
             THEN BuildResultsMap_FirstWins(Tail(recs), Put(m, TestNum(test_id), ResultEntry(test)))
             ELSE BuildResultsMap_FirstWins(Tail(recs), m)

\* The loop over results.get('tests', []), started with the mapping m.
RECURSIVE BuildResultsMap(_, _)
BuildResultsMap(recs, m) ==
    IF recs = << >> THEN m
    ELSE LET test    == Head(recs)
             test_id == Get(test, "id", "")
         IN  IF HasTestNum(test_id)
             THEN BuildResultsMap(Tail(recs), Put(m, TestNum(test_id), ResultEntry(test)))
             ELSE BuildResultsMap(Tail(recs), m)

\* load_test_results(results_file), for a file that is named.
LoadTestResults(file) ==
    IF file.kind = "missing" THEN EmptyResults
    ELSE IF file.kind = "malformed" THEN EmptyResults
    ELSE [is_none |-> FALSE, map |-> BuildResultsMap(file.tests, EmptyDict)]

\* main: test_results = load_test_results(args.results) if args.results else None
LoadResults ==
    /\ pc = "parsed"
    /\ \E file \in ResultsFiles :
          /\ results_file' = file
          /\ test_results' = IF file.kind = "absent" THEN NoResults
                             ELSE LoadTestResults(file)
    /\ pc' = "loaded"
    /\ UNCHANGED <<parseVars, stats, annotations, input_file, summary_file, summary,
                   summary_shown, calls, output,
                   reportVars>>

\* Variant: the exception of reading the summary file is not caught.
TrySummary_NoExcept(file) ==
    IF file.kind \in {"missing", "malformed"}
    THEN [raised |-> TRUE, summary |-> NoSummary]
    ELSE [raised |-> FALSE, summary |-> [is_none |-> FALSE, map |-> file.value]]

\* main: the try block that opens and parses the summary file; open raises
\* for a missing file and json.load for an unparseable one, the except
\* clause prints a warning and summary keeps the value None.
TrySummary(file) ==
    IF file.kind \in {"missing", "malformed"}
    THEN [raised |-> FALSE, summary |-> NoSummary]
    ELSE [raised |-> FALSE, summary |-> [is_none |-> FALSE, map |-> file.value]]

\* main: if args.summary: the summary file is loaded.
LoadSummary ==
    /\ pc = "loaded"
    /\ summary_file.kind # "absent"
    /\ summary' = TrySummary(summary_file).summary
    /\ pc' = IF TrySummary(summary_file).raised THEN "aborted" ELSE "ready"
    /\ UNCHANGED <<parseVars, results_file, test_results, stats, annotations,
                   input_file, summary_file, summary_shown, calls, output,
                   reportVars>>

(* ---------------------------------------------------------- generate_html *)
\* The truth value of test_results: neither None nor an empty dict.
Truthy(tr) == ~tr.is_none /\ DOMAIN tr.map # {}

\* sum(1 for r in test_results.values() if r.get('result') == status)
CountResults(tr, status) ==
    IF Truthy(tr)
    THEN Cardinality({key \in DOMAIN tr.map : tr.map[key].result = status})
    ELSE 0

\* sum(len(p['tests']) for p in phases)
RECURSIVE TotalTests(_)
TotalTests(ps) ==
    IF ps = << >> THEN 0 ELSE Len(Head(ps).tests) + TotalTests(Tail(ps))

\* Variant: the lookup ignores the test number and takes some entry.
ResultDataFor_AnyEntry(tr, test_num) ==
    IF Truthy(tr) THEN tr.map[CHOOSE key \in DOMAIN tr.map : TRUE] ELSE EmptyDict

\* test_results.get(test_num, {}) if test_results else {}
ResultDataFor(tr, test_num) ==
    IF Truthy(tr) THEN Get(tr.map, test_num, EmptyDict) ELSE EmptyDict

\* checkpoint_results_map, built over test_checkpoints starting with m
RECURSIVE CheckpointResultsMap(_, _)
CheckpointResultsMap(cps, m) ==
    IF cps = << >> THEN m
    ELSE CheckpointResultsMap(Tail(cps),
             Put(m, Get(Head(cps), "text", ""), Get(Head(cps), "result", "not_checked")))

\* Variant: the lookup takes the result of some entry, whatever its text.
CheckpointResultFor_AnyText(m, checkpoint_text) ==
    IF DOMAIN m # {} THEN m[CHOOSE text \in DOMAIN m : TRUE] ELSE "not_checked"

\* cp_result = checkpoint_results_map.get(checkpoint_text, 'not_checked')
CheckpointResultFor(m, checkpoint_text) == Get(m, checkpoint_text, "not_checked")

\* get_test_status_badge(result): the class of the badge
Badge(result) ==
    IF result \in {"passed", "failed", "running", "skipped"} THEN result ELSE "unknown"

\* What the body of the loop over phase['tests'] renders for one test of the
\* phase numbered phase_idx.
AnnotateTest(phase_idx, test, tr) ==
    LET test_id == <<"phase", phase_idx, "test", test.id>>
        test_result_data == ResultDataFor(tr, test.id)
        test_result == Get(test_result_data, "result", "unknown")
        test_duration == Get(test_result_data, "duration", 0)
        test_log == Get(test_result_data, "log_file", "")
        test_checkpoints == Get(test_result_data, "checkpoints", << >>)
        checkpoint_results_map == CheckpointResultsMap(test_checkpoints, EmptyDict)
    IN  [data_id |-> test_id,
         id |-> test.id,
         result |-> test_result,
         duration |-> test_duration,
         log_file |-> test_log,
         badge |-> Badge(test_result),
         info_shown |-> test_result # "unknown",
         log_link |-> test_result # "unknown" /\ test_log # "",
         checkpoints |->
            [k \in 1..Len(test.checkpoints) |->
                LET cp_result == CheckpointResultFor(checkpoint_results_map,
                                                     test.checkpoints[k].text)
                IN  [data_id |-> test_id \o <<"cp", k>>,
                     text |-> test.checkpoints[k].text,
                     result |-> cp_result,
                     class |-> IF cp_result \in {"passed", "failed"} THEN cp_result ELSE "",
                     badge_shown |-> cp_result # "not_checked"]]]

\* Variant: the badge of every entry is written into the entry.
ResultsAfterCall_Decorated(tr) ==
    [is_none |-> tr.is_none,
     map |-> [key \in DOMAIN tr.map |->
                 Put(tr.map[key], "badge", Badge(Get(tr.map[key], "result", "unknown")))]]

\* Variant: the lookups remove the entries they read.
ResultsAfterCall_Popped(tr) == IF Truthy(tr) THEN EmptyResults ELSE tr

\* The mapping passed as test_results after a call: generate_html reads it
\* with values() and get() and assigns to none of its entries.
ResultsAfterCall(tr) == tr

\* The data-id of the checkbox of checkpoint cp_idx of prerequisite prep_idx:
\* cp_id = f"{prep_id}-cp{cp_idx}" with prep_id = f"prep-{prep_idx}"
PrereqCheckboxId(prep_idx, cp_idx) == <<"prep", prep_idx, "cp", cp_idx>>

\* generate_html(prerequisites, phases, test_results, summary): the summary
\* counts and the loop over the phases and their tests. main calls it once
\* the results and the summary are loaded; it may be called again on the
\* same arguments.
GenerateHtml ==
    /\ \/ pc = "loaded" /\ summary_file.kind = "absent"
       \/ pc = "ready"
       \/ pc = "rendered"
    /\ calls < MaxCalls
    /\ calls' = calls + 1
    /\ summary_shown' = (Truthy(test_results) \/ Truthy(summary))
    /\ test_results' = ResultsAfterCall(test_results)
    /\ stats' = [total |-> TotalTests(phases),
                 passed |-> CountResults(test_results, "passed"),
                 failed |-> CountResults(test_results, "failed"),
                 running |-> CountResults(test_results, "running"),
                 skipped |-> CountResults(test_results, "skipped")]
    /\ annotations' =
         [p \in 1..Len(phases) |->
             [k \in 1..Len(phases[p].tests) |->
                 AnnotateTest(p, tests[phases[p].tests[k]], test_results)]]
    /\ pc' = "rendered"
    /\ UNCHANGED <<parseVars, results_file, input_file, summary_file, summary, output,
                   reportVars>>

NextMerge ==
    \/ PrereqHeading
    \/ PhaseHeading
    \/ TestHeading
    \/ FenceOpen
    \/ Collecting
    \/ Checkbox
    \/ OutputMarker
    \/ PlainLine
    \/ Finish
    \/ LoadResults
    \/ GenerateHtml

SpecMerge == InitMerge /\ [][NextMerge]_vars

(* ------------------------------------------------------- the whole of main *)
\* The program is started on a Markdown file that is missing or holds one of
\* the scenarios, with any summary file.
InitMain ==
    /\ input_file \in {"readable", "missing"}
    /\ lines \in IF input_file = "missing" THEN {<< >>} ELSE Scenarios
    /\ i = 0
    /\ prerequisites = << >>
    /\ current_prerequisite = 0
    /\ phases = << >>
    /\ current_phase = << >>
    /\ tests = << >>
    /\ current_test = 0
    /\ collecting_command = FALSE
    /\ command_lines = << >>
    /\ in_prerequisite = FALSE
    /\ current_section = "None"
    /\ role = << >>
    /\ results_file = [kind |-> "absent", tests |-> << >>]
    /\ test_results = NoResults
    /\ stats = [total |-> 0, passed |-> 0, failed |-> 0, running |-> 0, skipped |-> 0]
    /\ annotations = << >>
    /\ summary_file \in SummaryFiles
    /\ summary = NoSummary
    /\ summary_shown = FALSE
    /\ calls = 0
    /\ output = "none"
    /\ pc = "start"
    /\ ReportIdle

NextMain ==
    \/ ReadInput
    \/ PrereqHeading
    \/ PhaseHeading
    \/ TestHeading
    \/ FenceOpen
    \/ Collecting
    \/ Checkbox
    \/ OutputMarker
    \/ PlainLine
    \/ Finish
    \/ LoadResults
    \/ LoadSummary
    \/ GenerateHtml
    \/ WriteOutput

SpecMain == InitMain /\ [][NextMain]_vars

(* --------------------------------------------------- generate_html_report *)
\* The longest 'tests' array of a results file given to generate_html_report.
MaxReportTests == 3

\* test.get('phase', 'unknown'): the value for a record without 'phase'.
UnknownPhase == [str |-> "unknown"]

\* Test records of the results of an e2e run. The value of 'phase' is a JSON
\* string ([str |-> s]) or a JSON number ([num |-> n]); a record may lack
\* 'phase' and 'result'.
ReportRecords ==
    {[id |-> "a", phase |-> [str |-> "10"], result |-> "passed"],
     [id |-> "b", phase |-> [str |-> "2"], result |-> "failed"],
     [id |-> "c", result |-> "passed"],
     [id |-> "d", phase |-> [str |-> "1000"], result |-> "skipped"],
     [id |-> "e", phase |-> [str |-> "2"]],
     [id |-> "f", phase |-> [num |-> 1], result |-> "passed"],
     [id |-> "g", phase |-> [str |-> "1.0.1"], result |-> "failed"],
     [id |-> "h", phase |-> [str |-> "unknown"], result |-> "failed"],
     [id |-> "i", phase |-> [str |-> "1"], result |-> "passed"]}

\* x.replace('.', '').isdigit(), on the strings of ReportRecords.
DigitsWithoutDots(x) == x \in {"1", "2", "10", "1000", "1.0.1"}

\* Whether float(x) returns a value rather than raising ValueError.
IsFloatLiteral(x) == x \in {"1", "2", "10", "1000"}

\* float(x), on the strings of ReportRecords that denote a number.
FloatOf(x) ==
    CASE x = "1" -> 1
      [] x = "2" -> 2
      [] x = "10" -> 10
      [] x = "1000" -> 1000

\* The key function of sorted() raises AttributeError for a phase that is
\* not a string (x.replace) and ValueError for digits and dots that float()
\* rejects.
SortKeyRaises(phase) ==
    \/ "str" \notin DOMAIN phase
    \/ DigitsWithoutDots(phase.str) /\ ~IsFloatLiteral(phase.str)

\* lambda x: float(x) if x.replace('.', '').isdigit() else 999
SortKey(phase) == IF DigitsWithoutDots(phase.str) THEN FloatOf(phase.str) ELSE 999

\* One iteration of the grouping loop: the n-th test is appended to the list
\* of its phase, which is created at the end of the dict when it is new.
GroupInto(tbp, phase, n) ==
    IF \E k \in 1..Len(tbp) : tbp[k].phase = phase
    THEN [k \in 1..Len(tbp) |->
             IF tbp[k].phase = phase
             THEN [tbp[k] EXCEPT !.tests = Append(@, n)]
             ELSE tbp[k]]
    ELSE Append(tbp, [phase |-> phase, tests |-> <<n>>])

\* sorted(tests_by_phase.keys(), key=...): ascending keys, and the order of
\* insertion among phases of equal key (the sort is stable).
SortedKeys(tbp) ==
    LET Before(j, k) ==
            \/ SortKey(tbp[j].phase) < SortKey(tbp[k].phase)
            \/ SortKey(tbp[j].phase) = SortKey(tbp[k].phase) /\ j < k
        Rank(k) == 1 + Cardinality({j \in 1..Len(tbp) : Before(j, k)})
    IN  [r \in 1..Len(tbp) |-> tbp[CHOOSE k \in 1..Len(tbp) : Rank(k) = r].phase]

\* tests_by_phase[phase_num]
PhaseTests(tbp, phase_num) ==
    tbp[CHOOSE k \in 1..Len(tbp) : tbp[k].phase = phase_num].tests

\* sum(1 for t in phase_tests if t.get('result') == status)
CountPhase(rs, phase_tests, status) ==
    Cardinality({k \in 1..Len(phase_tests) :
                    Get(rs[phase_tests[k]], "result", "None") = status})

\* generate_html_report is called on a results document.
InitReport ==
    /\ lines = << >>
    /\ i = 0
    /\ prerequisites = << >>
    /\ current_prerequisite = 0
    /\ phases = << >>
    /\ current_phase = << >>
    /\ tests = << >>
    /\ current_test = 0
    /\ collecting_command = FALSE
    /\ command_lines = << >>
    /\ in_prerequisite = FALSE
    /\ current_section = "None"
    /\ role = << >>
    /\ results_file = [kind |-> "absent", tests |-> << >>]
    /\ test_results = NoResults
    /\ stats = [total |-> 0, passed |-> 0, failed |-> 0, running |-> 0, skipped |-> 0]
    /\ annotations = << >>
    /\ input_file = "readable"
    /\ summary_file = [kind |-> "absent", value |-> EmptyDict]
    /\ summary = NoSummary
    /\ summary_shown = FALSE
    /\ calls = 0
    /\ output = "none"
    /\ pc = "idle"
    /\ results \in SeqsUpTo(ReportRecords, MaxReportTests)
    /\ grouped = 0
    /\ tests_by_phase = << >>
    /\ sorted_phases = << >>
    /\ sections = << >>
    /\ report_pc = "group"

\* for test in tests: the test joins the list of its phase.
GroupTest ==
    /\ report_pc = "group"
    /\ grouped < Len(results)
    /\ tests_by_phase' = GroupInto(tests_by_phase,
                                   Get(results[grouped + 1], "phase", UnknownPhase),
                                   grouped + 1)
    /\ grouped' = grouped + 1
    /\ UNCHANGED <<parseVars, mergeVars, pc, results, sorted_phases, sections, report_pc>>

\* The keys are sorted for the loop over the phases; an exception of the key
\* function leaves generate_html_report before anything is written.
SortPhases ==
    /\ report_pc = "group"
    /\ grouped = Len(results)
    /\ IF \E k \in 1..Len(tests_by_phase) : SortKeyRaises(tests_by_phase[k].phase)
       THEN /\ report_pc' = "raised"
            /\ UNCHANGED sorted_phases
       ELSE /\ report_pc' = "emit"
            /\ sorted_phases' = SortedKeys(tests_by_phase)
    /\ UNCHANGED <<parseVars, mergeVars, pc, results, grouped, tests_by_phase, sections>>

\* for phase_num in sorted(...): the section of the phase, with its counts
\* and its tests, is appended to html.
EmitSection ==
    /\ report_pc = "emit"
    /\ Len(sections) < Len(sorted_phases)
    /\ LET phase_num == sorted_phases[Len(sections) + 1]
           phase_tests == PhaseTests(tests_by_phase, phase_num)
       IN  sections' = Append(sections,
                              [phase_num |-> phase_num,
                               phase_passed |-> CountPhase(results, phase_tests, "passed"),
                               phase_failed |-> CountPhase(results, phase_tests, "failed"),
                               tests |-> phase_tests])
    /\ UNCHANGED <<parseVars, mergeVars, pc, results, grouped, tests_by_phase,
                   sorted_phases, report_pc>>

\* The page is written to output_file.
WriteReport ==
    /\ report_pc = "emit"
    /\ Len(sections) = Len(sorted_phases)
    /\ report_pc' = "written"
    /\ UNCHANGED <<parseVars, mergeVars, pc, results, grouped, tests_by_phase,
                   sorted_phases, sections>>

NextReport ==
    \/ GroupTest
    \/ SortPhases
    \/ EmitSection
    \/ WriteReport

SpecReport == InitReport /\ [][NextReport]_vars

(* ------------------------------------------------ reading the history *)
\* The positions (one-based line numbers) consumed in role r, in order.
IndicesWith(r) == SelectSeq([k \in 1..Len(role) |-> k], LAMBDA k : role[k] = r)

\* The last position consumed in one of the roles R, or 0.
LastIndexIn(R) ==
    LET S == {k \in 1..Len(role) : role[k] \in R}
    IN  IF S = {} THEN 0 ELSE CHOOSE k \in S : \A m \in S : m <= k

\* The first position after k consumed in one of the roles R, or Len(lines) + 1.
NextIndexIn(R, k) ==
    LET S == {m \in (k + 1)..Len(role) : role[m] \in R}
    IN  IF S = {} THEN Len(lines) + 1 ELSE CHOOSE m \in S : \A n \in S : m <= n

LastRole == IF role = << >> THEN "none" ELSE role[Len(role)]

\* The containers that are open by the headings read so far: a prerequisite
\* is open from its heading to the next prerequisite or Phase heading, a
\* phase from its heading to the next Phase or prerequisite heading, a test
\* from its heading (read with a phase open) to the next heading.
OpenPrereqLine ==
    LET k == LastIndexIn({"prereq", "phase"})
    IN  IF k # 0 /\ role[k] = "prereq" THEN k ELSE 0

OpenPhaseLine ==
    LET k == LastIndexIn({"prereq", "phase"})
    IN  IF k # 0 /\ role[k] = "phase" THEN k ELSE 0

OpenTestLine ==
    LET k == LastIndexIn({"prereq", "phase", "test"})
    IN  IF k # 0 /\ role[k] = "test" /\ OpenPhaseLine # 0 THEN k ELSE 0

TitlesOf(recs) == [k \in 1..Len(recs) |-> recs[k].title]

(* ----------------------------------------------------------------- claims *)
\* C1: in the returned model the tests of each phase are exactly the Test
\* headings read between that phase's heading and the heading that ends the
\* phase (the next Phase heading, a prerequisite heading, or end of input),
\* in document order.
C1_TestsOfPhase ==
    pc = "parsed" =>
        \A p \in 1..Len(phases) :
            LET from == IndicesWith("phase")[p]
                to   == NextIndexIn({"phase", "prereq"}, from)
                hs   == SelectSeq(IndicesWith("test"), LAMBDA k : from < k /\ k < to)
            IN  TitlesOf(ReturnedPhases[p].tests) = [k \in 1..Len(hs) |-> TestTitle(lines[hs[k]])]

\* C2: the returned prerequisites are, in order, the prerequisite headings
\* read by the scanner and the returned phases are, in order, the Phase
\* headings read by the scanner.
C2_OneEntryPerHeading ==
    pc = "parsed" =>
        /\ TitlesOf(prerequisites) =
             [k \in 1..Len(IndicesWith("prereq")) |-> HeadingTitle(lines[IndicesWith("prereq")[k]])]
        /\ TitlesOf(phases) =
             [k \in 1..Len(IndicesWith("phase")) |-> HeadingTitle(lines[IndicesWith("phase")[k]])]

\* C2 witness: a returned model with two prerequisites and a phase, the phase
\* heading read after a prerequisite heading and a prerequisite heading read
\* while a phase was open.
C2_Witness ==
    /\ pc = "parsed"
    /\ Len(prerequisites) = 2
    /\ Len(phases) >= 1
    /\ \E a, b \in 1..Len(role) : a < b /\ role[a] = "phase" /\ role[b] = "prereq"

\* C3: when a fence-close line is read with a prerequisite or test to own the
\* command, the owner's command is the strip() of the lines strictly between
\* the fence-open line and the fence-close line, joined with line breaks.
C3_FenceRoundTrip ==
    (LastRole = "fence_close" /\ Len(role) = i) =>
        LET open  == LastIndexIn({"fence_open"})
            text  == JoinStrip(SubSeq(lines, open + 1, i - 1))
            owner == Owner(in_prerequisite, current_prerequisite, current_test)
        IN  /\ owner = "prerequisite" => prerequisites[current_prerequisite].command = text
            /\ owner = "test" => tests[current_test].command = text

\* The checkpoints of the container a checkpoint read now goes to.
OwnerCheckpoints ==
    LET owner == Owner(in_prerequisite, current_prerequisite, current_test)
    IN  IF owner = "prerequisite" THEN prerequisites[current_prerequisite].checkpoints
        ELSE IF owner = "test" THEN tests[current_test].checkpoints
        ELSE << >>

\* The lines between position open and the first fence-close line after it.
BlockAfter(open) ==
    LET closes == {k \in (open + 1)..Len(lines) : Strip(lines[k]) = FCLOSE}
        close  == CHOOSE k \in closes : \A m \in closes : k <= m
    IN  SubSeq(lines, open + 1, close - 1)

HasCloseAfter(open) == \E k \in (open + 1)..Len(lines) : Strip(lines[k]) = FCLOSE

\* C4: the checkpoint made from a checkbox line has as command the trimmed
\* content of the fenced block that starts on the next line (up to the first
\* fence-close line after it), and the empty text when the next line is not a
\* fence-open line.
C4_CheckpointCommand ==
    (LastRole \in {"checkbox", "nested"} /\ OwnerCheckpoints # << >>) =>
        LET c  == LastIndexIn({"checkbox"})
            cp == OwnerCheckpoints[Len(OwnerCheckpoints)]
        IN  IF c < Len(lines) /\ Strip(lines[c + 1]) = FOPEN
            THEN HasCloseAfter(c + 1) => cp.command = JoinStrip(BlockAfter(c + 1))
            ELSE cp.command = << >>

\* C4 witness: a checkpoint whose own fenced block, closed, holds a blank or
\* indented line has just been attached with the command "echo hi".
C4_Witness ==
    /\ LastRole = "nested"
    /\ Strip(lines[Len(role)]) = FCLOSE
    /\ OwnerCheckpoints # << >>
    /\ OwnerCheckpoints[Len(OwnerCheckpoints)].command = <<"echo hi">>
    /\ lines[LastIndexIn({"checkbox"}) + 2] \in {CMD, BLANK}

\* C5: once a Phase heading has been read, no step changes a prerequisite
\* that was created before that heading.
C5_PhaseEndsPrerequisite ==
    [][\A q \in 1..Len(prerequisites) :
          (\E k \in (IndicesWith("prereq")[q] + 1)..Len(role) : role[k] = "phase")
              => prerequisites'[q] = prerequisites[q]]_vars

\* C5 witness: a prerequisite heading, then a Phase heading, then a checkbox
\* item or a fence-close line have been read, with no other heading between.
C5_Witness ==
    /\ LastRole \in {"checkbox", "nested", "fence_close"}
    /\ OpenPhaseLine # 0
    /\ OpenTestLine = 0
    /\ \E a \in 1..Len(role) : role[a] = "prereq" /\ a < OpenPhaseLine

\* C6: the current prerequisite and the current phase are never both set.
C6_NotBothOpen == ~(current_prerequisite # 0 /\ current_phase # << >>)

\* C6 witness: a prerequisite heading has been read while a phase was open.
C6_Witness ==
    /\ current_prerequisite # 0
    /\ \E a \in 1..Len(role) : role[a] = "phase" /\ a < OpenPrereqLine

\* All checkpoint lists of the model under construction.
AllCheckpoints == <<[q \in 1..Len(prerequisites) |-> prerequisites[q].checkpoints],
                    [t \in 1..Len(tests) |-> tests[t].checkpoints]>>

\* C7: a checkbox item read outside a fence is appended to the checkpoints of
\* the open prerequisite if there is one, otherwise of the open test if there
\* is one, and of no other container; with neither open no checkpoint list
\* changes.
C7_OneContainer ==
    [][(InLoop /\ role' # role /\ role'[Len(role) + 1] = "checkbox") =>
          LET cp == [text |-> CheckpointText(Cur), command |-> CheckpointCommand(lines, i)]
              q  == Len(IndicesWith("prereq"))
              t  == Len(tests)
          IN  IF OpenPrereqLine # 0
              THEN /\ prerequisites' = [prerequisites EXCEPT ![q].checkpoints = Append(@, cp)]
                   /\ tests' = tests
              ELSE IF OpenTestLine # 0
              THEN /\ tests' = [tests EXCEPT ![t].checkpoints = Append(@, cp)]
                   /\ prerequisites' = prerequisites
              ELSE AllCheckpoints' = AllCheckpoints]_vars

\* C8: in the returned model the phase open at end of input is the last
\* phase, the test open at end of input is the last test of that phase, and
\* the prerequisite open at end of input is the last prerequisite.
C8_ForceClose ==
    pc = "parsed" =>
        /\ OpenPhaseLine # 0 =>
             /\ phases # << >>
             /\ phases[Len(phases)].title = HeadingTitle(lines[OpenPhaseLine])
             /\ Len(phases) = Len(IndicesWith("phase"))
        /\ OpenTestLine # 0 =>
             LET ts == ReturnedPhases[Len(phases)].tests
             IN  /\ ts # << >>
                 /\ ts[Len(ts)].title = TestTitle(lines[OpenTestLine])
                 /\ phases[Len(phases)].tests[Len(ts)] = Len(tests)
        /\ OpenPrereqLine # 0 =>
             /\ prerequisites # << >>
             /\ prerequisites[Len(prerequisites)].title = HeadingTitle(lines[OpenPrereqLine])

\* C8 witness: parse_markdown has returned after an input that ends with a
\* test open in a phase that follows an earlier phase.
C8_Witness ==
    /\ pc = "parsed"
    /\ OpenTestLine # 0
    /\ Len(phases) = 2
    /\ Len(phases[2].tests) >= 1

\* The records of the results file, and those whose test number is test_num.
FileRecords == IF results_file.kind = "json" THEN results_file.tests ELSE << >>

RecordsFor(test_num) ==
    SelectSeq(FileRecords,
              LAMBDA r : HasTestNum(Get(r, "id", "")) /\ TestNum(Get(r, "id", "")) = test_num)

\* The places <<p, k>> of the tests of the returned model.
TestPlaces ==
    UNION {{<<p, k>> : k \in 1..Len(phases[p].tests)} : p \in 1..Len(phases)}

AllUnknown ==
    \A pk \in TestPlaces :
        LET a == annotations[pk[1]][pk[2]]
        IN  /\ a.result = "unknown" /\ a.badge = "unknown"
            /\ a.duration = 0 /\ a.log_file = "" /\ ~a.log_link /\ ~a.info_shown

\* C9: every test of the returned model is annotated under its own id; a test
\* for whose id the results file holds no record (or no results file was
\* read) is annotated 'unknown' with duration 0 and no log link; when no
\* results file is named every test is 'unknown' and the four counts are 0.
C9_UnknownWithoutResult ==
    pc = "rendered" =>
        /\ Len(annotations) = Len(phases)
        /\ \A p \in 1..Len(phases) : Len(annotations[p]) = Len(phases[p].tests)
        /\ \A pk \in TestPlaces :
              LET a == annotations[pk[1]][pk[2]]
                  t == ReturnedPhases[pk[1]].tests[pk[2]]
              IN  /\ a.id = t.id
                  /\ RecordsFor(t.id) = << >> =>
                        /\ a.result = "unknown" /\ a.duration = 0
                        /\ a.log_file = "" /\ ~a.log_link
        /\ results_file.kind = "absent" =>
              /\ AllUnknown
              /\ stats.passed = 0 /\ stats.failed = 0
              /\ stats.running = 0 /\ stats.skipped = 0

\* C9 witness: a plan has been rendered with a results file that holds a
\* record for one of its tests and none for another.
C9_Witness ==
    /\ pc = "rendered"
    /\ \E pk, qm \in TestPlaces :
          /\ RecordsFor(annotations[pk[1]][pk[2]].id) = << >>
          /\ annotations[pk[1]][pk[2]].result = "unknown"
          /\ RecordsFor(annotations[qm[1]][qm[2]].id) # << >>
          /\ annotations[qm[1]][qm[2]].result # "unknown"

\* C10 as stated: every record of the results file whose id holds a test
\* number annotates the test of that number with its result, duration and
\* log file.
C10_EveryRecordAnnotates ==
    pc = "rendered" =>
        \A n \in 1..Len(FileRecords) :
            LET r == FileRecords[n]
            IN  HasTestNum(Get(r, "id", "")) =>
                    \A pk \in TestPlaces :
                        LET a == annotations[pk[1]][pk[2]]
                        IN  a.id = TestNum(Get(r, "id", "")) =>
                                /\ a.result = Get(r, "result", "unknown")
                                /\ a.duration = Get(r, "duration", 0)
                                /\ a.log_file = Get(r, "log_file", "")

\* C10, amended: a test for whose id the results file holds records is
\* annotated with the result, duration and log file of the last of them
\* ('unknown', 0 and '' for a key the record does not have).
C10_LastRecordAnnotates ==
    pc = "rendered" =>
        \A pk \in TestPlaces :
            LET a  == annotations[pk[1]][pk[2]]
                rs == RecordsFor(a.id)
            IN  rs # << >> =>
                    /\ a.result = Get(rs[Len(rs)], "result", "unknown")
                    /\ a.duration = Get(rs[Len(rs)], "duration", 0)
                    /\ a.log_file = Get(rs[Len(rs)], "log_file", "")

\* C10 witness: a test has been rendered for whose id the results file holds
\* two records that differ in result, the first with a prefixed id.
C10_Witness ==
    /\ pc = "rendered"
    /\ \E pk \in TestPlaces :
          LET rs == RecordsFor(annotations[pk[1]][pk[2]].id)
          IN  /\ Len(rs) = 2
              /\ rs[1].id = "test_1.1"
              /\ Get(rs[1], "result", "unknown") # Get(rs[2], "result", "unknown")

\* The number of tests of the returned model that are annotated with status.
AnnotatedAs(status) ==
    Cardinality({pk \in TestPlaces : annotations[pk[1]][pk[2]].result = status})

\* C11: each count of the summary (passed, failed, running, skipped) is the
\* number of tests of the parsed plan that are annotated with that status;
\* a test annotated 'unknown' is counted in none of them.
C11_CountsOfAnnotatedTests ==
    pc = "rendered" =>
        /\ stats.passed = AnnotatedAs("passed")
        /\ stats.failed = AnnotatedAs("failed")
        /\ stats.running = AnnotatedAs("running")
        /\ stats.skipped = AnnotatedAs("skipped")

C13_MissingInputAborts ==
    input_file = "missing" =>
        /\ pc \in {"start", "aborted"}
        /\ i = 0 /\ role = << >>
        /\ prerequisites = << >> /\ phases = << >> /\ tests = << >>
        /\ results_file.kind = "absent" /\ test_results = NoResults
        /\ summary = NoSummary
        /\ calls = 0 /\ annotations = << >>
        /\ output = "none"

\* C13 witness: the program has ended in failure on a missing input although
\* a summary file that parses was named.
C13_Witness ==
    /\ input_file = "missing"
    /\ pc = "aborted"
    /\ summary_file.kind = "json"

StepRole == role'[Len(role) + 1]

\* C15: a Phase heading closes the open test: while a phase is open and no
\* Test heading of it has been read no test is current, and a step that
\* reads anything but a Test heading (a checkbox item, the lines of a fenced
\* block) changes the checkpoints and the command of no test.
C15_PhaseHeadingClosesTest ==
    [][(InLoop /\ OpenPhaseLine # 0 /\ OpenTestLine = 0) =>
          /\ current_test = 0
          /\ StepRole # "test" => tests' = tests]_vars

\* C16: a prerequisite heading read while a phase and a test of it are open
\* stores the test as the last test of that phase and the phase as the last
\* of phases, and leaves no phase and no test open.
C16_PrereqHeadingClosesBoth ==
    [][(InLoop /\ OpenPhaseLine # 0 /\ OpenTestLine # 0 /\ StepRole = "prereq") =>
          /\ Len(phases') = Len(phases) + 1
          /\ phases'[Len(phases')].title = HeadingTitle(lines[OpenPhaseLine])
          /\ LET ts == phases'[Len(phases')].tests
             IN  /\ ts # << >>
                 /\ tests'[ts[Len(ts)]].title = TestTitle(lines[OpenTestLine])
          /\ current_phase' = << >>
          /\ current_test' = 0]_vars

\* C17: while a fence is being collected every line but the fence-close line
\* is appended verbatim to the accumulator and does nothing else: it opens
\* and closes no container, creates no checkpoint and keeps the fence open.
C17_FenceLinesVerbatim ==
    [][(InLoop /\ collecting_command /\ ~IsFenceClose(Cur)) =>
          /\ command_lines' = Append(command_lines, Cur)
          /\ i' = i + 1
          /\ collecting_command'
          /\ UNCHANGED <<prerequisites, current_prerequisite, phases, current_phase,
                         tests, current_test, in_prerequisite>>]_vars

\* C18: the fence-close line of a fence being collected assigns the collected
\* text, joined and stripped, as command to the open prerequisite if there
\* is one, otherwise to the open test if there is one, and changes no other
\* command; with neither open no command changes. Collecting stops and the
\* accumulator is emptied.
C18_FenceCloseOwner ==
    [][(InLoop /\ collecting_command /\ IsFenceClose(Cur)) =>
          LET text == JoinStrip(command_lines)
              q    == Len(IndicesWith("prereq"))
              t    == Len(tests)
          IN  /\ IF OpenPrereqLine # 0
                 THEN /\ prerequisites' = [prerequisites EXCEPT ![q].command = text]
                      /\ tests' = tests
                 ELSE IF OpenTestLine # 0
                 THEN /\ tests' = [tests EXCEPT ![t].command = text]
                      /\ prerequisites' = prerequisites
                 ELSE /\ tests' = tests
                      /\ prerequisites' = prerequisites
              /\ ~collecting_command'
              /\ command_lines' = << >>]_vars

\* C19: a Test heading read while no phase is open is skipped: it creates no
\* test, stores nothing, and leaves the prerequisites, the phases and the
\* current test as they were; only the cursor moves on.
C19_TestHeadingWithoutPhase ==
    [][(InLoop /\ OpenPhaseLine = 0 /\ StepRole = "test") =>
          /\ i' = i + 1
          /\ UNCHANGED <<prerequisites, current_prerequisite, phases, current_phase,
                         tests, current_test>>]_vars

\* C19 witness: a Test heading has been skipped, after a prerequisite heading
\* that followed an earlier phase and test.
C19_Witness ==
    /\ LastRole = "test"
    /\ OpenPhaseLine = 0
    /\ OpenPrereqLine # 0
    /\ tests # << >>

\* C20: whenever a test is current a phase is current, and the current test
\* is the test opened by the last Test heading of that phase.
C20_CurrentTestInCurrentPhase ==
    current_test # 0 =>
        /\ current_phase # << >>
        /\ OpenTestLine # 0
        /\ tests[current_test].title = TestTitle(lines[OpenTestLine])

\* The phases created so far, stored or current, in the order of creation
\* (after the loop the current phase is stored).
PhasesSoFar == IF pc = "scan" THEN phases \o current_phase ELSE phases

\* C21: the description of a phase is the text of the line that follows its
\* Phase heading when that line is a goal line, and empty otherwise; the
\* goal line is consumed with the heading and not read again; a goal line
\* anywhere else changes no description.
C21_GoalLineDescription ==
    LET hs == IndicesWith("phase")
    IN  /\ Len(PhasesSoFar) = Len(hs)
        /\ \A n \in 1..Len(hs) :
              LET h == hs[n]
              IN  IF h < Len(lines) /\ IsGoalLine(lines[h + 1])
                  THEN /\ PhasesSoFar[n].description = GoalText(lines[h + 1])
                       /\ role[h + 1] = "goal"
                  ELSE PhasesSoFar[n].description = ""

\* C21 witness: the scan has ended on a document with a phase whose heading
\* is followed by a goal line, a phase whose heading is not, and a goal line
\* elsewhere that was read as a plain line.
C21_Witness ==
    /\ pc = "parsed"
    /\ \E n, m \in 1..Len(PhasesSoFar) :
          /\ PhasesSoFar[n].description = "goal text"
          /\ PhasesSoFar[m].description = ""
    /\ \E k \in 1..Len(role) : IsGoalLine(lines[k]) /\ role[k] = "plain"

\* The commands of a list of records, in order.
CommandsOf(recs) == [k \in 1..Len(recs) |-> recs[k].command]

\* The fence-close lines after the fence-open line that follows the line
\* under the cursor.
NestedCloses == {k \in (i + 3)..Len(lines) : IsFenceClose(lines[k])}

\* C22: a checkbox line whose next line opens a fenced block that is closed
\* consumes the block alone: the cursor moves to the line after the first
\* fence-close line, every line of the block is consumed as a nested line
\* and as nothing else, the fence-collecting flag stays unset, no command of
\* a prerequisite or test changes and no container is opened or closed.
C22_NestedFenceFrame ==
    [][(InLoop /\ StepRole = "checkbox" /\ i + 1 < Len(lines)
            /\ IsFenceOpen(lines[i + 2]) /\ NestedCloses # {}) =>
          LET close == CHOOSE k \in NestedCloses : \A m \in NestedCloses : k <= m
          IN  /\ i' = close
              /\ role' = role \o <<"checkbox">> \o [k \in 1..(close - i - 1) |-> "nested"]
              /\ ~collecting_command'
              /\ command_lines' = command_lines
              /\ CommandsOf(prerequisites') = CommandsOf(prerequisites)
              /\ CommandsOf(tests') = CommandsOf(tests)
              /\ UNCHANGED <<phases, current_phase, current_test,
                             current_prerequisite, in_prerequisite>>]_vars

\* C22 witness: a checkpoint of a test that has a command has consumed its
\* own fenced block, and the cursor is on the line after its fence-close.
C22_Witness ==
    /\ pc = "scan"
    /\ LastRole = "nested"
    /\ i < Len(lines)
    /\ IsFenceClose(lines[i])
    /\ current_test # 0
    /\ tests[current_test].command # << >>
    /\ tests[current_test].checkpoints # << >>
    /\ tests[current_test].checkpoints[Len(tests[current_test].checkpoints)].command # << >>
    /\ tests[current_test].checkpoints[Len(tests[current_test].checkpoints)].command
          # tests[current_test].command

\* The checkpoints of the result record that annotates the test of number
\* test_num (the last record of that number), and those of them whose text
\* is checkpoint_text.
ResultCheckpointsFor(test_num) ==
    LET rs == RecordsFor(test_num)
    IN  IF rs = << >> THEN << >> ELSE Get(rs[Len(rs)], "checkpoints", << >>)

MatchingCheckpoints(test_num, checkpoint_text) ==
    SelectSeq(ResultCheckpointsFor(test_num),
              LAMBDA cp : Get(cp, "text", "") = checkpoint_text)

\* C23: every checkpoint of every test of the returned model is rendered
\* with the text it was parsed with and with the result of the checkpoint of
\* the test's result record that has exactly that text; with no result
\* record, or none of its checkpoints of exactly that text, the result is
\* 'not_checked'.
C23_CheckpointExactText ==
    pc = "rendered" =>
        \A pk \in TestPlaces :
            LET a == annotations[pk[1]][pk[2]]
                t == ReturnedPhases[pk[1]].tests[pk[2]]
            IN  /\ Len(a.checkpoints) = Len(t.checkpoints)
                /\ \A k \in 1..Len(t.checkpoints) :
                      LET ms == MatchingCheckpoints(t.id, t.checkpoints[k].text)
                      IN  /\ a.checkpoints[k].text = t.checkpoints[k].text
                          /\ a.checkpoints[k].result =
                                IF ms = << >> THEN "not_checked"
                                ELSE Get(ms[Len(ms)], "result", "not_checked")

\* C23 witness: a plan has been rendered in which one checkpoint has the
\* result of the result checkpoint of its text and another is not checked
\* although its test's result record has a checkpoint whose text differs from
\* its own in a trailing blank only.
C23_Witness ==
    /\ pc = "rendered"
    /\ \E pk, qm \in TestPlaces :
          LET a == annotations[pk[1]][pk[2]]
              b == annotations[qm[1]][qm[2]]
          IN  /\ \E k \in 1..Len(a.checkpoints) : a.checkpoints[k].result = "failed"
              /\ \E k \in 1..Len(b.checkpoints) :
                    /\ b.checkpoints[k].result = "not_checked"
                    /\ b.checkpoints[k].text = "ok"
                    /\ \E n \in 1..Len(ResultCheckpointsFor(b.id)) :
                          ResultCheckpointsFor(b.id)[n].text = "ok "

\* C24: a call of generate_html leaves its arguments as they were: the
\* results mapping, the summary, the prerequisites and the phases with every
\* test and checkpoint.
C24_RenderReadOnly ==
    [][calls' = calls + 1 =>
          UNCHANGED <<test_results, summary, prerequisites, phases, tests>>]_vars

\* C24 witness: generate_html has been called with a results mapping that
\* has entries, a summary that has entries, prerequisites, and a phase with
\* a test that has a checkpoint and a result.
C24_Witness ==
    /\ pc = "rendered"
    /\ Truthy(test_results)
    /\ Truthy(summary)
    /\ prerequisites # << >>
    /\ \E pk \in TestPlaces :
          /\ annotations[pk[1]][pk[2]].checkpoints # << >>
          /\ annotations[pk[1]][pk[2]].result # "unknown"

\* The roles in which a line is consumed.
Roles == {"prereq", "phase", "goal", "test", "fence_open", "fence_close", "content",
          "checkbox", "nested", "output_marker", "plain"}

\* C25: the scan is one forward pass that ends: while lines are left a step
\* is possible and every step moves the cursor forward by at least one line
\* and at most to one past the end, consuming exactly the lines it moves
\* over, each in one role; with no line left the only step ends the scan;
\* so after at most as many steps as the document has lines the model is
\* returned.
C25_SingleForwardPass ==
    /\ [](pc = "scan" =>
             /\ ENABLED Next
             /\ i <= Len(lines) + 1
             /\ Len(role) = (IF i > Len(lines) THEN Len(lines) ELSE i)
             /\ \A k \in 1..Len(role) : role[k] \in Roles)
    /\ [][pc = "scan" =>
             IF i < Len(lines)
             THEN /\ pc' = "scan"
                  /\ i' > i
                  /\ lines' = lines
                  /\ SubSeq(role', 1, Len(role)) = role
             ELSE /\ pc' = "parsed"
                  /\ UNCHANGED <<i, lines, role>>]_vars

\* C25 witness: a document of several lines has been scanned to its end by
\* fewer steps than it has lines: a goal line was consumed with its heading
\* and the lines of a checkpoint's block with their checkbox line.
C25_Witness ==
    /\ pc = "parsed"
    /\ i = Len(lines)
    /\ Len(lines) >= 6
    /\ \E k, m, n \in 1..Len(role) :
          role[k] = "goal" /\ role[m] = "nested" /\ role[n] = "content"

\* The Test headings read under each Phase heading (up to the heading that
\* ends the phase) carry pairwise distinct ids.
DistinctIdsUnderEachPhase ==
    \A p \in 1..Len(IndicesWith("phase")) :
        LET from == IndicesWith("phase")[p]
            to   == NextIndexIn({"phase", "prereq"}, from)
            hs   == SelectSeq(IndicesWith("test"), LAMBDA k : from < k /\ k < to)
        IN  \A a, b \in 1..Len(hs) :
                a # b => TestIdOf(lines[hs[a]]) # TestIdOf(lines[hs[b]])

\* The checkboxes rendered for the tests and for their checkpoints, and
\* those rendered for the checkpoints of the prerequisites, each with its
\* data-id.
TestCheckboxes ==
    {[place |-> pk, id |-> annotations[pk[1]][pk[2]].data_id] : pk \in TestPlaces}

CheckpointCheckboxes ==
    UNION {{[place |-> <<pk[1], pk[2], k>>,
             id |-> annotations[pk[1]][pk[2]].checkpoints[k].data_id] :
               k \in 1..Len(annotations[pk[1]][pk[2]].checkpoints)} : pk \in TestPlaces}

PrereqCheckboxes ==
    UNION {{[place |-> <<"prep", q, k>>, id |-> PrereqCheckboxId(q, k)] :
               k \in 1..Len(prerequisites[q].checkpoints)} : q \in 1..Len(prerequisites)}

\* C27: when the Test headings under each Phase heading carry pairwise
\* distinct ids, no two checkboxes of the rendered page have the same
\* data-id.
C27_DistinctCheckboxIds ==
    (pc = "rendered" /\ DistinctIdsUnderEachPhase) =>
        \A c, d \in TestCheckboxes \cup CheckpointCheckboxes \cup PrereqCheckboxes :
            c.place # d.place => c.id # d.id

\* A fence is being collected and no line from the cursor on is the
\* fence-close token: the fence stays open to the end of input.
UnclosedFence ==
    /\ pc = "scan"
    /\ collecting_command
    /\ \A k \in (i + 1)..Len(lines) : Strip(lines[k]) # FCLOSE

\* C28: from the fence-open line of a fence that is never closed to the
\* return, no step changes the command of a prerequisite or test that exists
\* (the collected lines are assigned nowhere), and the return still stores
\* the open phase with its open test and returns every prerequisite.
C28_UnclosedFenceAssignsNothing ==
    [][UnclosedFence =>
          /\ \A q \in 1..Len(prerequisites) :
                prerequisites'[q].command = prerequisites[q].command
          /\ \A t \in 1..Len(tests) : tests'[t].command = tests[t].command
          /\ pc' = "parsed" =>
                /\ prerequisites' = prerequisites
                /\ Len(prerequisites') = Len(IndicesWith("prereq"))
                /\ Len(phases') = Len(IndicesWith("phase"))
                /\ OpenTestLine # 0 =>
                      LET ts == phases'[Len(phases')].tests
                      IN  /\ ts # << >>
                          /\ tests'[ts[Len(ts)]].title = TestTitle(lines[OpenTestLine])]_vars

\* C28 witness: the model has been returned with a fence still open that had
\* collected a line, in a test whose command had been set by an earlier
\* fence and is not the collected text.
C28_Witness ==
    /\ pc = "parsed"
    /\ collecting_command
    /\ command_lines # << >>
    /\ OpenTestLine # 0
    /\ tests[current_test].command # << >>
    /\ tests[current_test].command # JoinStrip(command_lines)
    /\ phases[Len(phases)].tests = <<current_test>>

\* C29: a checkbox line whose next line opens a fenced block that no later
\* line closes consumes every remaining line: the lines after the
\* fence-open line, joined and stripped, are the checkpoint's command, each
\* is consumed as a nested line and opens, closes or creates nothing, the
\* checkpoint is appended to the open prerequisite or else the open test,
\* the cursor ends one past the last line, and the next step returns the
\* model with the open phase stored.
C29_UnclosedNestedFence ==
    [][/\ (pc = "scan" /\ i > Len(lines)) =>
             /\ pc' = "parsed"
             /\ prerequisites' = prerequisites
             /\ Len(phases') = Len(IndicesWith("phase"))
       /\ (InLoop /\ StepRole = "checkbox" /\ i + 1 < Len(lines)
            /\ IsFenceOpen(lines[i + 2]) /\ NestedCloses = {}) =>
          LET cp == [text |-> CheckpointText(Cur),
                     command |-> JoinStrip(SubSeq(lines, i + 3, Len(lines)))]
              q  == Len(IndicesWith("prereq"))
              t  == Len(tests)
          IN  /\ i' = Len(lines) + 1
              /\ role' = role \o <<"checkbox">> \o [k \in 1..(Len(lines) - i - 1) |-> "nested"]
              /\ OpenPrereqLine # 0 =>
                    /\ prerequisites' = [prerequisites EXCEPT ![q].checkpoints = Append(@, cp)]
                    /\ tests' = tests
              /\ (OpenPrereqLine = 0 /\ OpenTestLine # 0) =>
                    /\ tests' = [tests EXCEPT ![t].checkpoints = Append(@, cp)]
                    /\ prerequisites' = prerequisites
              /\ UNCHANGED <<phases, current_phase, current_test, current_prerequisite,
                             in_prerequisite, collecting_command, command_lines,
                             pc>>]_vars

\* C29 witness: the model has been returned after a checkpoint of a
\* prerequisite consumed a Phase heading as a line of its unclosed block.
C29_Witness ==
    /\ pc = "parsed"
    /\ i = Len(lines) + 1
    /\ phases = << >>
    /\ \E k \in 1..Len(role) : role[k] = "nested" /\ IsPhaseHeading(lines[k])
    /\ prerequisites # << >>
    /\ prerequisites[Len(prerequisites)].checkpoints # << >>
    /\ prerequisites[Len(prerequisites)].checkpoints[1].command # << >>

\* The Test headings that opened a test (read with a phase open), in order:
\* the k-th of them opened the k-th test.
OpenedTestLines ==
    SelectSeq(IndicesWith("test"),
              LAMBDA k : LET h == CHOOSE m \in {0} \cup {n \in 1..(k - 1) : role[n] \in {"prereq", "phase"}} :
                                    \A n \in 1..(k - 1) : role[n] \in {"prereq", "phase"} => n <= m
                         IN  h # 0 /\ role[h] = "phase")

\* The text of the fence closed at line c: the lines consumed as content
\* since the fence-open line before it, joined and stripped.
ClosedBlock(c) ==
    LET open == CHOOSE k \in 1..(c - 1) :
                    /\ role[k] = "fence_open"
                    /\ \A m \in (k + 1)..(c - 1) : role[m] # "fence_open"
        ks   == SelectSeq([k \in 1..(c - open - 1) |-> open + k],
                          LAMBDA k : role[k] = "content")
    IN  JoinStrip([n \in 1..Len(ks) |-> lines[ks[n]]])

\* The command a container opened at line h should have: the text of the
\* last fence closed in its scope, which ends at the next heading of one of
\* the roles in ends; empty when no fence is closed in its scope.
CommandInScope(h, ends) ==
    LET to == NextIndexIn(ends, h)
        cs == {c \in (h + 1)..(to - 1) : c <= Len(role) /\ role[c] = "fence_close"}
    IN  IF cs = {} THEN << >>
        ELSE ClosedBlock(CHOOSE c \in cs : \A d \in cs : d <= c)

\* C30: in the returned model the command of every prerequisite and of every
\* test is the text of the last fence closed within its own scope (not a
\* concatenation of several), and a fence closed outside its scope has not
\* changed it.
C30_LastFenceInScope ==
    pc = "parsed" =>
        /\ \A q \in 1..Len(prerequisites) :
              prerequisites[q].command =
                  CommandInScope(IndicesWith("prereq")[q], {"prereq", "phase"})
        /\ Len(tests) = Len(OpenedTestLines)
        /\ \A t \in 1..Len(tests) :
              tests[t].command =
                  CommandInScope(OpenedTestLines[t], {"prereq", "phase", "test"})

\* The test numbers of the records of the results file.
FileKeys ==
    {TestNum(Get(FileRecords[n], "id", "")) :
        n \in {m \in 1..Len(FileRecords) : HasTestNum(Get(FileRecords[m], "id", ""))}}

\* C31: the mapping load_test_results returns for a results file that parses
\* has one entry for every N.M-shaped number that is the first one in the id
\* of some record and no other entry (an id with two numbers is keyed by the
\* first, an id without a number by nothing); the entry of a key holds the
\* result, duration, log file and checkpoints of the last record of that
\* key; the mapping has no more entries than the file has records.
C31_ResultsMapKeys ==
    (pc = "loaded" /\ results_file.kind = "json") =>
        /\ ~test_results.is_none
        /\ DOMAIN test_results.map = FileKeys
        /\ \A n \in 1..Len(FileRecords) :
              /\ Get(FileRecords[n], "id", "") = "run_2.0_test_1.1" =>
                    "2.0" \in DOMAIN test_results.map
              /\ Get(FileRecords[n], "id", "") \in {"smoke", ""} =>
                    Cardinality(DOMAIN test_results.map) < Len(FileRecords)
        /\ "1.1" \in DOMAIN test_results.map =>
              \E n \in 1..Len(FileRecords) : Get(FileRecords[n], "id", "") = "test_1.1"
        /\ \A key \in DOMAIN test_results.map :
              LET rs   == RecordsFor(key)
                  last == rs[Len(rs)]
              IN  /\ rs # << >>
                  /\ test_results.map[key].result = Get(last, "result", "unknown")
                  /\ test_results.map[key].duration = Get(last, "duration", 0)
                  /\ test_results.map[key].log_file = Get(last, "log_file", "")
                  /\ test_results.map[key].checkpoints = Get(last, "checkpoints", << >>)
        /\ Cardinality(DOMAIN test_results.map) <= Len(FileRecords)

\* C31 witness: a results file has been loaded whose two records have
\* different ids of the same number and different results; the mapping has
\* the one entry of the second.
C31_Witness ==
    /\ pc = "loaded"
    /\ results_file.kind = "json"
    /\ Len(FileRecords) = 2
    /\ Get(FileRecords[1], "id", "") = "test_1.2"
    /\ Get(FileRecords[2], "id", "") = "1.2"
    /\ DOMAIN test_results.map = {"1.2"}
    /\ test_results.map["1.2"].result = "skipped"

\* C32: in a rendered summary block the four counts together do not exceed
\* the total number of tests of the parsed phases shown next to them.
C32_CountsWithinTotal ==
    (pc = "rendered" /\ summary_shown) =>
        stats.passed + stats.failed + stats.running + stats.skipped <= stats.total

\* The sections that hold the n-th record of the results.
SectionsOf(n) ==
    {s \in 1..Len(sections) : \E k \in 1..Len(sections[s].tests) : sections[s].tests[k] = n}

\* A phase key that denotes a number.
IsNumericPhase(phase) == "str" \in DOMAIN phase /\ IsFloatLiteral(phase.str)

\* Every record is in one section, once, and that section is the one of its
\* 'phase' value, or of 'unknown' when it has none.
EveryRecordInOneSection ==
    \A n \in 1..Len(results) :
        /\ Cardinality(SectionsOf(n)) = 1
        /\ \A s \in SectionsOf(n) :
              /\ sections[s].phase_num = Get(results[n], "phase", UnknownPhase)
              /\ Cardinality({k \in 1..Len(sections[s].tests) : sections[s].tests[k] = n}) = 1

\* The tests of a section are in the order of the results.
InputOrderKept ==
    \A s \in 1..Len(sections) :
        \A j, k \in 1..Len(sections[s].tests) :
            j < k => sections[s].tests[j] < sections[s].tests[k]

\* Numeric phases ascend, and no other phase comes before a numeric one.
NumericAscendingThenOthers ==
    \A a, b \in 1..Len(sections) :
        a < b =>
            /\ (IsNumericPhase(sections[a].phase_num) /\ IsNumericPhase(sections[b].phase_num))
                  => FloatOf(sections[a].phase_num.str) <= FloatOf(sections[b].phase_num.str)
            /\ IsNumericPhase(sections[b].phase_num) => IsNumericPhase(sections[a].phase_num)

\* The two counts of a section do not exceed its number of tests.
CountsWithinSection ==
    \A s \in 1..Len(sections) :
        sections[s].phase_passed + sections[s].phase_failed <= Len(sections[s].tests)

\* C33: in a written report every record of the results is in exactly one
\* phase section, that of its 'phase' value or of 'unknown'; the tests of a
\* section keep the order of the results; the sections of numeric phases
\* come in ascending order, before those of all other phases; and the passed
\* and failed counts of a section sum to at most its number of tests.
C33_PhaseSections ==
    report_pc = "written" =>
        /\ EveryRecordInOneSection
        /\ InputOrderKept
        /\ NumericAscendingThenOthers
        /\ CountsWithinSection

====
